---- MODULE Spec2Model ----
(***************************************************************************)
(* Model of radar.py (Radar do Cacador): the identifier extractor, the     *)
(* product loader, the date-rotation selector, the text formatter and the  *)
(* /pacote/{turno} request handler.                                        *)
(*                                                                         *)
(* Strings that the code inspects character by character (URLs, item ids)  *)
(* are sequences of one-character strings.  Python lists are sequences;    *)
(* Python's 0-based index i of a list s is written At(s, i).               *)
(***************************************************************************)
EXTENDS Integers, Sequences, FiniteSets, TLC

VARIABLES
    url,        \* extractor: the URL handed to extrair_id_item
    extraido,   \* extractor: what extrair_id_item returned or raised
    arquivo,    \* request: TRUE iff urls.txt exists
    urls,       \* request: the non-blank lines of urls.txt
    pc,         \* request: position of the handler
    turno,      \* request: the lowercased path parameter
    idx,        \* request: position of the loop of carregar_produtos in urls
    buscas,     \* request: item ids buscar_detalhes_produto was called with
    respostas,  \* request: per processed URL, what happened to it
    resposta,   \* request: the HTTP response
    produtos,   \* the product list (loader's accumulator / selector's argument)
    hoje,       \* date.today().toordinal()
    chamadas,   \* selector: calls of the selector made so far today
    doDia,      \* selector: per shift, the results returned so far today
    deOntem     \* selector: per shift, the results returned the day before

vars == <<url, extraido, arquivo, urls, pc, turno, idx, buscas, respostas,
          resposta, produtos, hoje, chamadas, doDia, deOntem>>

varsExtrator == <<url, extraido>>
varsPedido   == <<arquivo, urls, pc, turno, idx, buscas, respostas, resposta>>
varsSeletor  == <<chamadas, doDia, deOntem>>

(***************************************************************************)
(* Bounds                                                                  *)
(***************************************************************************)
MaxSegmentos == 5    \* URL pieces per URL given to the extractor
MaxUrls      == 3    \* lines of urls.txt
MaxDia       == 12   \* last day ordinal the clock reaches
MaxDiaPedido == 2    \* last day ordinal a request is made on
MaxProdutos  == 10   \* longest list of pairwise distinct candidates
MaxCurta     == 3    \* longest candidate list taken over all contents
MaxChamadas  == 3    \* calls of the selector per day

(***************************************************************************)
(* Generic helpers                                                         *)
(***************************************************************************)
At(s, i) == s[i + 1]

Elems(s) == {s[i] : i \in 1..Len(s)}

SeqsUpTo(S, n) == UNION {[1..k -> S] : k \in 0..n}

RECURSIVE Flatten(_)
Flatten(ss) == IF ss = <<>> THEN <<>> ELSE Head(ss) \o Flatten(Tail(ss))

\* Python's range(a, b) as the sequence of its values
range(a, b) == [i \in 1..(IF b > a THEN b - a ELSE 0) |-> a + i - 1]

Nenhum == [tipo |-> "nenhum", valor |-> <<>>]

(***************************************************************************)
(* extrair_id_item                                                         *)
(***************************************************************************)
Digitos == {"0", "1", "2", "3", "4", "5", "6", "7", "8", "9"}

\* the pattern MLB\d+ matches starting at position i of u (1-based)
CasaEm(u, i) ==
    /\ i + 3 <= Len(u)
    /\ u[i] = "M" /\ u[i + 1] = "L" /\ u[i + 2] = "B"
    /\ u[i + 3] \in Digitos

\* \d+ is greedy: the last position of the digit run that starts at j
RECURSIVE FimDigitos(_, _)
FimDigitos(u, j) ==
    IF j + 1 <= Len(u) /\ u[j + 1] \in Digitos THEN FimDigitos(u, j + 1) ELSE j

\* re.findall(r"(MLB\d+)", u): leftmost non-overlapping matches, scanning from i
RECURSIVE re_findall(_, _)
re_findall(u, i) ==
    IF i > Len(u) THEN <<>>
    ELSE IF CasaEm(u, i)
         THEN LET e == FimDigitos(u, i + 3)
              IN  <<SubSeq(u, i, e)>> \o re_findall(u, e + 1)
         ELSE re_findall(u, i + 1)

\* a bug variant of max(..., key=len): a later match of equal length wins
RECURSIVE max_len_ultimo(_, _)
max_len_ultimo(ms, melhor) ==
    IF ms = <<>> THEN melhor
    ELSE max_len_ultimo(Tail(ms),
                        IF Len(Head(ms)) >= Len(melhor) THEN Head(ms) ELSE melhor)

\* max(matches, key=len), run from the best so far: only a strictly longer
\* match replaces it, so the first of the longest wins
RECURSIVE max_len(_, _)
max_len(ms, melhor) ==
    IF ms = <<>> THEN melhor
    ELSE max_len(Tail(ms),
                 IF Len(Head(ms)) > Len(melhor) THEN Head(ms) ELSE melhor)

extrair_id_item(u) ==
    LET matches == re_findall(u, 1)
    IN  IF matches = <<>>
        THEN [tipo |-> "ValueError", valor |-> <<>>]
        ELSE [tipo |-> "ok", valor |-> max_len(Tail(matches), Head(matches))]

(***************************************************************************)
(* selecionar_produtos_para_turno                                          *)
(***************************************************************************)
\* a bug variant of the shift table: the morning range takes one index more
FATIAS_TURNO_manha_larga ==
    [manha |-> range(0, 4), tarde |-> range(3, 6), noite |-> range(6, 9)]

\* a bug variant of the shift table: the afternoon range starts one index early
FATIAS_TURNO_sobrepostas ==
    [manha |-> range(0, 3), tarde |-> range(2, 5), noite |-> range(6, 9)]

FATIAS_TURNO ==
    [manha |-> range(0, 3), tarde |-> range(3, 6), noite |-> range(6, 9)]

TurnosValidos == DOMAIN FATIAS_TURNO

\* a bug variant: the offset moves with every call, not with the day
deslocamento_por_chamada(ps, dia) ==
    IF ps # <<>> THEN (dia + chamadas) % Len(ps) ELSE 0

\* a bug variant: the offset ignores the date
deslocamento_fixo(ps, dia) == 0

\* deslocamento = hoje % len(produtos) if produtos else 0
deslocamento(ps, dia) == IF ps # <<>> THEN dia % Len(ps) ELSE 0

\* a bug variant: produtos[-d:] + produtos[:-d], a rotation to the right
\* (Python reads [-0:] as the whole list and [:-0] as the empty one)
rotacao_a_direita(ps, d) ==
    IF d = 0 THEN ps
    ELSE SubSeq(ps, Len(ps) - d + 1, Len(ps)) \o SubSeq(ps, 1, Len(ps) - d)

\* produtos[deslocamento:] + produtos[:deslocamento]
produtos_rotacionados(ps, d) == SubSeq(ps, d + 1, Len(ps)) \o SubSeq(ps, 1, d)

\* the caller's list once the call has returned: the slices build a new
\* list and nothing assigns into produtos
produtos_apos(ps, d) == ps

\* for idx in faixa: if idx < len(rot): selecionados.append(rot[idx])
RECURSIVE fatiar(_, _)
fatiar(rot, faixa) ==
    IF faixa = <<>> THEN <<>>
    ELSE (IF Head(faixa) < Len(rot) THEN <<At(rot, Head(faixa))>> ELSE <<>>)
         \o fatiar(rot, Tail(faixa))

selecionar_produtos_para_turno(ps, t, dia) ==
    IF t \notin DOMAIN FATIAS_TURNO
    THEN [tipo |-> "HTTPException", status |-> 400, valor |-> <<>>]
    ELSE [tipo |-> "ok", status |-> 200,
          valor |-> fatiar(produtos_rotacionados(ps, deslocamento(ps, dia)),
                           FATIAS_TURNO[t])]

(***************************************************************************)
(* montar_texto_pacote: the text as the sequence linhas, before the join. *)
(* A line is a tuple: its kind, then what it shows.  The lines of a        *)
(* product carry the product; formatar_preco_brl and the f-strings only    *)
(* decorate them.                                                          *)
(***************************************************************************)
titulo_mapa ==
    [manha |-> "Pacote das 6h", tarde |-> "Pacote das 12h", noite |-> "Pacote das 19h"]

titulo(t) ==
    IF t \in DOMAIN titulo_mapa THEN <<titulo_mapa[t]>> ELSE <<"Pacote - ", t>>

bloco(p) ==
    << <<"nome", p>>, <<"vazia">>, <<"preco", p>>, <<"cupom">>, <<"link", p>>,
       <<"vazia">> >>

RECURSIVE blocos(_)
blocos(ps) == IF ps = <<>> THEN <<>> ELSE bloco(Head(ps)) \o blocos(Tail(ps))

nada_encontrado == << <<"nao encontrei produtos">>, <<"amanha o radar tenta de novo">> >>

rodape == << <<"eu caco e voce economiza">>, <<"precos e estoque podem mudar">> >>

\* a bug variant: an empty selection goes through the product loop too
montar_texto_so_laco(t, ps) ==
    << <<"titulo">> \o titulo(t) >> \o blocos(ps) \o rodape

montar_texto_pacote(t, ps) ==
    << <<"titulo">> \o titulo(t) >>
    \o (IF ps = <<>> THEN nada_encontrado ELSE blocos(ps))
    \o rodape

(***************************************************************************)
(* The selector and the formatter on their own: a candidate list, a clock  *)
(* and calls for any shift name.                                           *)
(***************************************************************************)
NomesDeTurno == {"manha", "tarde", "noite", "madrugada"}

\* every list over two products up to MaxCurta long (repeats included), and
\* the lists 1..n of pairwise distinct products up to MaxProdutos long
Candidatos ==
    SeqsUpTo({1, 2}, MaxCurta) \cup {[i \in 1..n |-> i] : n \in 0..MaxProdutos}

SemChamadas == [t \in NomesDeTurno |-> {}]

\* one call select + render, as lines 193-194 chain them
Chamada(ps, t, dia) ==
    LET r == selecionar_produtos_para_turno(ps, t, dia)
    IN  [tipo         |-> r.tipo,
         status       |-> r.status,
         entrada      |-> ps,
         depois       |-> produtos_apos(ps, deslocamento(ps, dia)),
         selecionados |-> r.valor,
         linhas       |-> IF r.tipo = "ok" THEN montar_texto_pacote(t, r.valor)
                          ELSE <<>>]

InitSel ==
    /\ produtos \in Candidatos
    /\ hoje \in 1..MaxDia
    /\ chamadas = 0
    /\ doDia = SemChamadas
    /\ deOntem = SemChamadas
    /\ url = <<>> /\ extraido = Nenhum
    /\ arquivo = TRUE /\ urls = <<>> /\ pc = "fora" /\ turno = "" /\ idx = 0
    /\ buscas = <<>> /\ respostas = <<>> /\ resposta = Nenhum

Selecionar(t) ==
    /\ pc = "fora"
    /\ chamadas < MaxChamadas
    /\ chamadas' = chamadas + 1
    /\ LET c == Chamada(produtos, t, hoje)
       IN  /\ doDia' = [doDia EXCEPT ![t] = @ \cup {c}]
           /\ produtos' = c.depois
    /\ UNCHANGED <<hoje, deOntem, varsExtrator, varsPedido>>

AvancarDia ==
    /\ pc = "fora"
    /\ hoje < MaxDia
    /\ hoje' = hoje + 1
    /\ chamadas' = 0
    /\ deOntem' = doDia
    /\ doDia' = SemChamadas
    /\ UNCHANGED <<produtos, varsExtrator, varsPedido>>

NextSel ==
    \/ \E t \in NomesDeTurno : Selecionar(t)
    \/ AvancarDia

SpecSel == InitSel /\ [][NextSel]_vars

(***************************************************************************)
(* Properties of the selector and the formatter (under SpecSel)            *)
(***************************************************************************)
Distintos(s) == \A i, j \in 1..Len(s) : s[i] = s[j] => i = j

\* the first index of each shift's range, as the claims give it
IndiceInicial == [manha |-> 0, tarde |-> 3, noite |-> 6]

\* C2: for every candidate list and every valid shift, on every day, the
\* selector returns (without raising) at most 3 items, each one an element
\* of the candidate list.
C2_AteTresDosCandidatos ==
    \A t \in TurnosValidos : \A c \in doDia[t] :
        /\ c.tipo = "ok"
        /\ Len(c.selecionados) <= 3
        /\ Elems(c.selecionados) \subseteq Elems(c.entrada)

C2_Witness ==
    \E t \in TurnosValidos : \E c \in doDia[t] :
        Len(c.entrada) > 9 /\ Len(c.selecionados) = 3

C4_TurnosDisjuntos ==
    \A t1, t2 \in TurnosValidos : \A c1 \in doDia[t1] : \A c2 \in doDia[t2] :
        ( /\ t1 # t2
          /\ c1.entrada = c2.entrada
          /\ Distintos(c1.entrada)
          /\ Len(c1.entrada) % 3 = 0 )
        => Elems(c1.selecionados) \cap Elems(c2.selecionados) = {}

C4_Witness ==
    \E c1 \in doDia["manha"] : \E c2 \in doDia["tarde"] :
        /\ c1.entrada = c2.entrada
        /\ Len(c1.entrada) = 6
        /\ Len(c1.selecionados) = 3 /\ Len(c2.selecionados) = 3
        /\ hoje % 6 # 0

EhLinhaDeProduto(l) == l[1] \in {"nome", "preco", "cupom", "link"}

\* C6: for the empty candidate list the selector returns the empty sequence
\* without raising, for every valid shift, and the formatter turns it into
\* the "nothing found" message: a non-empty body with no product block.
C6_VazioDaNadaEncontrado ==
    \A t \in TurnosValidos : \A c \in doDia[t] :
        c.entrada = <<>> =>
            /\ c.tipo = "ok"
            /\ c.selecionados = <<>>
            /\ c.linhas # <<>>
            /\ \E i \in 1..Len(c.linhas) : c.linhas[i] = nada_encontrado[1]
            /\ \A i \in 1..Len(c.linhas) : ~EhLinhaDeProduto(c.linhas[i])

C6_Witness ==
    /\ produtos = <<>>
    /\ \A t \in TurnosValidos : doDia[t] # {}

\* C8, as claimed: for every valid shift and every non-empty list of pairwise
\* distinct products, the selection of a day differs from that of the day before.
C8_MudaTodoDia ==
    \A t \in TurnosValidos : \A a \in deOntem[t] : \A b \in doDia[t] :
        ( /\ a.entrada = b.entrada
          /\ a.entrada # <<>>
          /\ Distintos(a.entrada) )
        => a.selecionados # b.selecionados

\* C8, amended: for every valid shift and every list of at least two pairwise
\* distinct products that is longer than the first index of the shift's range,
\* the selection of a day differs (as a sequence) from that of the day before.
C8_MudaSeHaOQueRodar ==
    \A t \in TurnosValidos : \A a \in deOntem[t] : \A b \in doDia[t] :
        ( /\ a.entrada = b.entrada
          /\ Len(a.entrada) >= 2
          /\ Len(a.entrada) > IndiceInicial[t]
          /\ Distintos(a.entrada) )
        => a.selecionados # b.selecionados

C8_Witness ==
    \E a \in deOntem["tarde"] : \E b \in doDia["tarde"] :
        /\ a.entrada = b.entrada
        /\ Len(a.entrada) = 4
        /\ Len(a.selecionados) = 1 /\ Len(b.selecionados) = 1

\* the items c[(k mod n + i) mod n] for i in [lo, lo+3), i < n, in increasing i
Rotacao(c, lo, k) ==
    LET n == Len(c)
        m == IF n <= lo THEN 0 ELSE IF n - lo >= 3 THEN 3 ELSE n - lo
    IN  [j \in 1..m |-> At(c, ((k % n) + (lo + j - 1)) % n)]

\* C10: for a list c of length n >= 1, a valid shift whose range starts at lo
\* and day ordinal k, the selector returns, in increasing i, exactly the items
\* c[(k mod n + i) mod n] for i in [lo, lo+3) with i < n (no wrap-around past
\* the end of the list), and c is the same list after the call.
C10_RotacaoPelaData ==
    \A t \in TurnosValidos : \A c \in doDia[t] :
        Len(c.entrada) >= 1 =>
            /\ c.selecionados = Rotacao(c.entrada, IndiceInicial[t], hoje)
            /\ c.depois = c.entrada

C10_Witness ==
    \E c \in doDia["noite"] :
        /\ Len(c.entrada) = 7
        /\ hoje % 7 = 3
        /\ c.selecionados = <<3>>

(***************************************************************************)
(* The extractor on its own.                                               *)
(***************************************************************************)
Segmentos == { <<"M", "L", "B">>, <<"M">>, <<"L">>, <<"1">>, <<"2">>, <<"/">> }

UrlsDeTeste == {Flatten(ss) : ss \in SeqsUpTo(Segmentos, MaxSegmentos)}

InitExt ==
    /\ url \in UrlsDeTeste
    /\ extraido = Nenhum
    /\ produtos = <<>> /\ hoje = 1
    /\ chamadas = 0 /\ doDia = SemChamadas /\ deOntem = SemChamadas
    /\ arquivo = TRUE /\ urls = <<>> /\ pc = "fora" /\ turno = "" /\ idx = 0
    /\ buscas = <<>> /\ respostas = <<>> /\ resposta = Nenhum

Extrair ==
    /\ extraido = Nenhum
    /\ extraido' = extrair_id_item(url)
    /\ UNCHANGED <<url, produtos, hoje, varsSeletor, varsPedido>>

NextExt == Extrair

SpecExt == InitExt /\ [][NextExt]_vars

(***************************************************************************)
(* Properties of the extractor (under SpecExt)                             *)
(***************************************************************************)
\* where MLB<digits> occurs in u, and the text of the occurrence at i: MLB
\* and every digit that follows it
Ocorrencias(u) ==
    {i \in 1..Len(u) : i + 3 <= Len(u) /\ SubSeq(u, i, i + 2) = <<"M", "L", "B">>
                       /\ u[i + 3] \in Digitos}

TextoDe(u, i) ==
    LET fim == CHOOSE e \in (i + 3)..Len(u) :
                   /\ \A j \in (i + 3)..e : u[j] \in Digitos
                   /\ (e = Len(u) \/ u[e + 1] \notin Digitos)
    IN  SubSeq(u, i, fim)

\* C9: extrair_id_item returns the longest MLB<digits> match of the URL, the
\* first in URL order among the longest; with no match it raises ValueError
\* and returns nothing.
C9_MaisLongoPrimeiro ==
    extraido # Nenhum =>
        LET occ == Ocorrencias(url)
        IN  IF occ = {}
            THEN extraido.tipo = "ValueError"
            ELSE /\ extraido.tipo = "ok"
                 /\ \E i \in occ :
                       /\ extraido.valor = TextoDe(url, i)
                       /\ \A j \in occ : Len(TextoDe(url, j)) <= Len(TextoDe(url, i))
                       /\ \A j \in occ : Len(TextoDe(url, j)) = Len(TextoDe(url, i))
                                         => i <= j

\* two different matches tie for the longest, after a shorter one
C9_Witness ==
    /\ extraido.tipo = "ok"
    /\ url = <<"M", "L", "B", "1", "M", "L", "B", "2">>
    /\ extraido.valor = <<"M", "L", "B", "1">>

(***************************************************************************)
(* buscar_detalhes_produto, carregar_produtos, gerar_pacote, obter_pacote  *)
(***************************************************************************)
\* what the Mercado Livre endpoint may answer to one GET; two values of
\* sold_quantity give the sort every order of two products (more, fewer, equal)
RespostasDoMeli ==
    {[status |-> 200, corpo |-> "json", vendas |-> v] : v \in {0, 1}}
    \cup {[status |-> 200, corpo |-> "invalido", vendas |-> 0],
          [status |-> 500, corpo |-> "erro", vendas |-> 0]}

SemBusca == [status |-> 0, corpo |-> "sem busca", vendas |-> 0]

\* Produto(...): nome, preco and link ride along with id_item and are left out
Produto(item_id, vendas) == [id_item |-> item_id, vendas |-> vendas]

\* one GET; a status other than 200 raises HTTPException(502), a body that
\* is not JSON makes resp.json() raise ValueError; sold_quantity defaults to 0
buscar_detalhes_produto(item_id, resp) ==
    IF resp.status # 200
    THEN [tipo |-> "HTTPException", status |-> 502, valor |-> Produto(item_id, 0)]
    ELSE IF resp.corpo # "json"
    THEN [tipo |-> "ValueError", status |-> 500, valor |-> Produto(item_id, 0)]
    ELSE [tipo |-> "ok", status |-> 200, valor |-> Produto(item_id, resp.vendas)]

\* a bug variant of the except clause: except ValueError
capturada_so_value_error(tipo) == tipo = "ValueError"

\* except Exception: ValueError and HTTPException are both caught
capturada(tipo) == tipo \in {"ValueError", "HTTPException"}

\* produtos.sort(key=lambda p: p.vendas, reverse=True): stable, so p goes
\* behind every product that sold at least as much
RECURSIVE inserir(_, _)
inserir(s, p) ==
    IF s = <<>> THEN <<p>>
    ELSE IF Head(s).vendas >= p.vendas THEN <<Head(s)>> \o inserir(Tail(s), p)
    ELSE <<p>> \o s

RECURSIVE ordenar_por_vendas(_)
ordenar_por_vendas(ps) ==
    IF ps = <<>> THEN <<>>
    ELSE inserir(ordenar_por_vendas(SubSeq(ps, 1, Len(ps) - 1)), ps[Len(ps)])

\* turno.lower() on the path values the model sends
minusculas ==
    [manha |-> "manha", Tarde |-> "tarde", NOITE |-> "noite", madrugada |-> "madrugada"]

texto_sem_produtos(t) ==
    << <<"titulo", "Pacote - ", t>>, <<"vazia">>, <<"nao ha produtos cadastrados">>,
       <<"adicione algumas urls">> >>

\* gerar_pacote from the return of carregar_produtos on
gerar_pacote(ps, t, dia) ==
    IF ps = <<>>
    THEN [status |-> 200, linhas |-> texto_sem_produtos(t)]
    ELSE LET r == selecionar_produtos_para_turno(ps, t, dia)
         IN  IF r.tipo # "ok"
             THEN [status |-> r.status, linhas |-> <<>>]
             ELSE [status |-> 200, linhas |-> montar_texto_pacote(t, r.valor)]

SemResposta == [status |-> 0, linhas |-> <<>>]

UrlsConhecidas ==
    { <<"/", "p">>,
      <<"M", "L", "B", "1">>,
      <<"M", "L", "B", "1", "/">>,
      <<"M", "L", "B", "1", "/", "M", "L", "B", "2", "2">> }

Init ==
    /\ arquivo \in BOOLEAN
    /\ urls \in (IF arquivo THEN SeqsUpTo(UrlsConhecidas, MaxUrls) ELSE {<<>>})
    /\ hoje \in 1..MaxDiaPedido
    /\ pc = "idle" /\ turno = "" /\ idx = 0
    /\ produtos = <<>> /\ buscas = <<>> /\ respostas = <<>>
    /\ resposta = SemResposta
    /\ url = <<>> /\ extraido = Nenhum
    /\ chamadas = 0 /\ doDia = SemChamadas /\ deOntem = SemChamadas

\* GET /pacote/{t}: obter_pacote lowercases, gerar_pacote calls
\* carregar_produtos, which opens urls.txt (HTTPException 500 if it is missing)
ObterPacote(t) ==
    /\ pc = "idle"
    /\ turno' = minusculas[t]
    /\ IF arquivo
       THEN /\ pc' = "carregando"
            /\ UNCHANGED resposta
       ELSE /\ pc' = "done"
            /\ resposta' = [status |-> 500, linhas |-> <<>>]
    /\ UNCHANGED <<arquivo, urls, idx, produtos, buscas, respostas, hoje,
                   varsExtrator, varsSeletor>>

\* one pass of the loop of carregar_produtos over urls[idx], the endpoint
\* answering resp if it is asked
ProcessarUrl(resp) ==
    /\ pc = "carregando"
    /\ idx < Len(urls)
    /\ LET e == extrair_id_item(At(urls, idx))
           b == buscar_detalhes_produto(e.valor, resp)
           falha == IF e.tipo # "ok" THEN e.tipo ELSE IF b.tipo # "ok" THEN b.tipo ELSE "ok"
       IN  /\ buscas' = IF e.tipo = "ok" THEN Append(buscas, e.valor) ELSE buscas
           /\ respostas' = Append(respostas, IF e.tipo = "ok" THEN resp ELSE SemBusca)
           /\ produtos' = IF falha = "ok" THEN Append(produtos, b.valor) ELSE produtos
           /\ IF falha = "ok" \/ capturada(falha)
              THEN /\ idx' = idx + 1
                   /\ UNCHANGED <<pc, resposta>>
              ELSE /\ pc' = "done"
                   /\ resposta' = [status |-> IF e.tipo = "ok" THEN b.status ELSE 500,
                                   linhas |-> <<>>]
                   /\ UNCHANGED idx
    /\ UNCHANGED <<arquivo, urls, turno, hoje, varsExtrator, varsSeletor>>

\* the loop is over: sort, return, and the rest of gerar_pacote and obter_pacote
Responder ==
    /\ pc = "carregando"
    /\ idx = Len(urls)
    /\ produtos' = ordenar_por_vendas(produtos)
    /\ resposta' = gerar_pacote(produtos', turno, hoje)
    /\ pc' = "done"
    /\ UNCHANGED <<arquivo, urls, turno, idx, buscas, respostas, hoje,
                   varsExtrator, varsSeletor>>

Next ==
    \/ \E t \in DOMAIN minusculas : ObterPacote(t)
    \/ \E resp \in RespostasDoMeli : ProcessarUrl(resp)
    \/ Responder

Spec == Init /\ [][Next]_vars

(***************************************************************************)
(* Properties of a request (under Spec)                                    *)
(***************************************************************************)
\* C1, as claimed: a request whose lowercased turno is not manha, tarde or
\* noite ends in the rejection (HTTP 400) and never in a text, whatever
\* urls.txt holds and whatever the endpoint answers.
C1_TurnoInvalidoRejeitado ==
    (pc = "done" /\ arquivo /\ turno \notin TurnosValidos)
        => (resposta.status = 400 /\ resposta.linhas = <<>>)

Contar(s, x) == Cardinality({i \in 1..Len(s) : s[i] = x})

MesmoSaco(s1, s2) ==
    \A x \in Elems(s1) \cup Elems(s2) : Contar(s1, x) = Contar(s2, x)

\* the products owed for the first n URLs: one per URL that has an identifier
\* and got a 200 answer with a JSON body
RECURSIVE Devidos(_)
Devidos(n) ==
    IF n = 0 THEN <<>>
    ELSE Devidos(n - 1)
         \o (IF /\ Ocorrencias(urls[n]) # {}
                /\ respostas[n].status = 200
                /\ respostas[n].corpo = "json"
             THEN <<Produto(extrair_id_item(urls[n]).valor, respostas[n].vendas)>>
             ELSE <<>>)

\* C5: whatever happens to each URL (no identifier, a status other than 200,
\* a body that is not JSON, success), carregar_produtos goes through the whole
\* list without raising and returns exactly one product per URL whose
\* extraction and fetch both succeeded and none for the others; the request
\* then answers from those products.
C5_FalhaPorItemNaoAborta ==
    (arquivo /\ pc # "idle") =>
        /\ Len(respostas) = idx
        /\ MesmoSaco(produtos, Devidos(idx))
        /\ pc = "done" => /\ idx = Len(urls)
                          /\ resposta.status \in {200, 400}
                          /\ resposta.status = 400 => turno \notin TurnosValidos

\* a 500 and a broken body among three URLs, and the one good item is rendered
C5_Witness ==
    /\ pc = "done"
    /\ Len(urls) = 3
    /\ \E i, j \in 1..3 : respostas[i].status = 500 /\ respostas[j].corpo = "invalido"
    /\ Len(produtos) = 1
    /\ resposta.status = 200
    /\ \E i \in 1..Len(resposta.linhas) : resposta.linhas[i] = <<"nome", produtos[1]>>

\* C7, as claimed: within one request buscar_detalhes_produto is called at
\* most once per item identifier.
C7_UmaBuscaPorItem ==
    \A i, j \in 1..Len(buscas) : buscas[i] = buscas[j] => i = j

====
